---- MODULE Spec2Model ----
(***************************************************************************)
(* A model of py-imageprocessing: the two scripts                          *)
(*   src/src/imageprocessing.py   (count taken from the command line)      *)
(*   src/imageprocessing.py       (earlier script, count fixed)            *)
(* URL acquisition (generate_image_urls, is_accessible), image fetch       *)
(* (download_image), grayscale conversion (to_grayscale) and the driver    *)
(* loop of __main__.                                                       *)
(*                                                                         *)
(* A text (a URL, a service response, a path) is a sequence of tokens: a   *)
(* token is one of the separator characters " ", "\n", "/", "." or a run   *)
(* of other characters.  strip, split, splitext, dirname and str work on   *)
(* these sequences the way the Python functions work on characters.        *)
(***************************************************************************)
EXTENDS Integers, Sequences, FiniteSets, TLC

\* Largest command-line argument tried (arguments range over -1..MaxN).
MaxN == 3
\* The count of generation requests saturates here (the loop has no bound).
MaxBatches == 2

\* response.status_code == 200
HTTP_OK == 200

SP == " "
NL == "\n"
SEP == "/"
DOT == "."
Whitespace == {SP, NL}

(***************************************************************************)
(* String functions of the Python library used by the scripts.             *)
(***************************************************************************)
RECURSIVE lstrip(_)
lstrip(s) ==
    IF s # <<>> /\ Head(s) \in Whitespace THEN lstrip(Tail(s)) ELSE s

RECURSIVE rstrip(_)
rstrip(s) ==
    IF s # <<>> /\ s[Len(s)] \in Whitespace
    THEN rstrip(SubSeq(s, 1, Len(s) - 1))
    ELSE s

\* str.strip()
strip(s) == rstrip(lstrip(s))

\* str.split(sep): every occurrence of sep separates; "" splits to [""]
RECURSIVE split(_, _)
split(s, sep) ==
    IF \E j \in 1..Len(s) : s[j] = sep
    THEN LET j == CHOOSE j \in 1..Len(s) :
                      s[j] = sep /\ \A m \in 1..(j - 1) : s[m] # sep
         IN  <<SubSeq(s, 1, j - 1)>> \o split(SubSeq(s, j + 1, Len(s)), sep)
    ELSE <<s>>

\* str.rfind(c), 1-based; 0 when c does not occur
rfind(p, c) ==
    IF \E j \in 1..Len(p) : p[j] = c
    THEN CHOOSE j \in 1..Len(p) :
             p[j] = c /\ \A m \in (j + 1)..Len(p) : p[m] # c
    ELSE 0

\* os.path.splitext(p): <<root, ext>>; the extension starts at the last dot
\* of the last path component, leading dots of the component apart
splitext(p) ==
    LET sepIndex == rfind(p, SEP)
        dotIndex == rfind(p, DOT)
    IN  IF /\ dotIndex > sepIndex
           /\ \E f \in (sepIndex + 1)..(dotIndex - 1) : p[f] # DOT
        THEN <<SubSeq(p, 1, dotIndex - 1), SubSeq(p, dotIndex, Len(p))>>
        ELSE <<p, <<>>>>

RECURSIVE rstripsep(_)
rstripsep(s) ==
    IF s # <<>> /\ s[Len(s)] = SEP
    THEN rstripsep(SubSeq(s, 1, Len(s) - 1))
    ELSE s

\* os.path.dirname(p): up to the last separator, trailing separators removed
\* unless the head holds nothing else
dirname(p) ==
    LET head == SubSeq(p, 1, rfind(p, SEP))
    IN  IF \A j \in 1..Len(head) : head[j] = SEP THEN head ELSE rstripsep(head)

Digits == <<"0", "1", "2", "3", "4", "5", "6", "7", "8", "9">>

\* str(n) of a natural number
RECURSIVE str(_)
str(n) ==
    IF n < 10 THEN <<Digits[n + 1]>>
    ELSE str(n \div 10) \o <<Digits[(n % 10) + 1]>>

(***************************************************************************)
(* Inputs: the entry points, the texts the service may answer with, the    *)
(* responses an HTTP GET may get.                                          *)
(***************************************************************************)
CLI_SCRIPT == "src/src/imageprocessing.py"
FIXED_SCRIPT == "src/imageprocessing.py"
Scripts == {CLI_SCRIPT, FIXED_SCRIPT}

ArgValues == (0 - 1)..MaxN

URL_JPG == <<"https:", SEP, SEP, "pd", DOT, "org", SEP, "cat", DOT, "jpg">>
URL_PNG == <<"https:", SEP, SEP, "pd", DOT, "org", SEP, "dog", DOT, "png">>
URL_NOEXT == <<"https:", SEP, SEP, "pd", DOT, "org", SEP, "img">>

\* extraction_response.text
Texts ==
    { <<>>,
      URL_JPG,
      <<SP>> \o URL_PNG \o <<SP, NL>> \o URL_JPG \o <<NL>>,
      URL_NOEXT \o <<NL, NL, SP>> \o URL_JPG,
      URL_PNG \o <<NL>> \o URL_JPG \o <<NL>> \o URL_PNG }

StatusCodes == {HTTP_OK, 404}

\* What requests.get(url) yields: a response, or an exception (raised)
Responses ==
    [raised : {FALSE}, status_code : StatusCodes]
        \cup {[raised |-> TRUE, status_code |-> 0]}

\* requests.get("") raises MissingSchema; any other URL may get any response
GetResponses(u) ==
    IF u = <<>> THEN {[raised |-> TRUE, status_code |-> 0]} ELSE Responses

\* client.models.generate_content: text, or an APIError subclass
GenaiResults == {"ok", "ServerError", "ClientError"}

\* response.content
Bodies == {"image", "junk"}

NoResponse == [raised |-> FALSE, status_code |-> 0]

(***************************************************************************)
(* Paths                                                                   *)
(***************************************************************************)
IMAGES_DIR(s) ==
    IF s = CLI_SCRIPT THEN <<"src", SEP, "..", SEP, "images">>
    ELSE <<"..", SEP, "images">>

GSIMAGES_DIR(s) ==
    IF s = CLI_SCRIPT THEN <<"src", SEP, "..", SEP, "gs-images">>
    ELSE <<"..", SEP, "gs-images">>

\* imagefile for loop index idx (0-based)
imagefile(s, idx, lst) ==
    IMAGES_DIR(s) \o <<SEP>> \o str(idx + 1) \o splitext(lst[idx + 1])[2]

GrayIndexOffByOne(s, idx, lst) ==
    GSIMAGES_DIR(s) \o <<SEP>> \o str(idx + 2) \o splitext(lst[idx + 1])[2]

\* grayfile for loop index idx (0-based)
grayfile(s, idx, lst) ==
    GSIMAGES_DIR(s) \o <<SEP>> \o str(idx + 1) \o splitext(lst[idx + 1])[2]

(***************************************************************************)
(* The decisions of the code                                               *)
(***************************************************************************)
\* int(sys.argv[1]) in the command-line script, the literal 1 in the other
RequestedCount(s, a) == IF s = CLI_SCRIPT THEN a ELSE 1

WhileFirstBatchOnly(lst, n) == lst = <<>> /\ 0 < n

\* while len(image_urls) < numimages
while_test(lst, n) == Len(lst) < n

BreakNever(lst, n) == FALSE

\* if len(image_urls) == numimages: break
break_test(lst, n) == Len(lst) = n

AccessibleUnlessRaised(r) == ~r.raised

AccessibleNever(r) == FALSE

\* is_accessible: status 200, and False on RequestException / ValueError
is_accessible(r) == ~r.raised /\ r.status_code = HTTP_OK

DownloadAlwaysWrites(r) == ~r.raised

\* download_image: if response.status_code == 200
download_ok(r) == ~r.raised /\ r.status_code = HTTP_OK

\* cv2.imread: the decoded image, or None for a missing or undecodable file
imread(files, path) ==
    IF path \in DOMAIN files /\ files[path] = "image" THEN "image" ELSE "None"

ImageNeverNone(image) == FALSE

\* if image is None
image_is_None(image) == image = "None"

\* cv2.cvtColor(image, cv2.COLOR_BGR2GRAY)
cvtColor(image) == "gray"

ServerErrorReturnsList ==
    [pc |-> "main_for", exitcode |-> 0 - 1, out |-> "Error: <err.message>"]

\* except genai.errors.ServerError: print, sys.exit(1)
ServerErrorHandler ==
    [pc |-> "exited", exitcode |-> 1, out |-> "Error: <err.message>"]

\* an exception no except clause catches: traceback, exit status 1
Uncaught == [pc |-> "exited", exitcode |-> 1, out |-> "Traceback"]

DownloadErrorGoesOn ==
    [pc |-> "convert", exitcode |-> 0 - 1,
     out |-> "Error while downloading image"]

\* download_image, else branch: print, sys.exit(1)
DownloadErrorHandler ==
    [pc |-> "exited", exitcode |-> 1, out |-> "Error while downloading image"]

Min(a, b) == IF a < b THEN a ELSE b

Write(files, path, content) ==
    [p \in (DOMAIN files) \cup {path} |->
        IF p = path THEN content ELSE files[p]]

(***************************************************************************)
(* State                                                                   *)
(***************************************************************************)
VARIABLES
    script,      \* which entry point runs
    argv,        \* sys.argv[1], an integer
    pc,          \* the statement the process is at
    numimages,   \* parameter of generate_image_urls
    image_urls,  \* the accumulated list
    probes,      \* for each accepted entry, the URL checked and its response
    batches,     \* generation requests issued so far (saturating)
    raised,      \* the exception of the last text-generation call, or "none"
    urls,        \* the current batch: lines of the extraction response
    k,           \* position of the for loop in urls
    url,         \* the loop variable of the for loop
    returned,    \* generate_image_urls has returned image_urls
    i,           \* the driver's loop index (0-based)
    response,    \* the response download_image got last
    fs,          \* the files: path -> content
    dirs,        \* the directories that exist
    trace,       \* the downloads and conversions done, in order
    exitcode,    \* -1 while running
    console      \* the kinds of message printed

vars == <<script, argv, pc, numimages, image_urls, probes, batches, raised,
          urls, k, url, returned, i, response, fs, dirs, trace, exitcode,
          console>>

acq == <<numimages, image_urls, probes, batches, raised, urls, k, url,
         returned>>
drv == <<i, response, fs, dirs, trace>>

AcquisitionStates == {"generate", "extract", "for", "body"}

Init ==
    /\ script \in Scripts
    /\ argv \in ArgValues
    /\ pc = "start"
    /\ numimages = 0
    /\ image_urls = <<>>
    /\ probes = <<>>
    /\ batches = 0
    /\ raised = "none"
    /\ urls = <<>>
    /\ k = 0
    /\ url = <<>>
    /\ returned = FALSE
    /\ i = 0
    /\ response = NoResponse
    /\ fs = <<>>
    /\ dirs \in {{}, {IMAGES_DIR(script), GSIMAGES_DIR(script)}}
    /\ trace = <<>>
    /\ exitcode = 0 - 1
    /\ console = {}

\* Where control goes at the head of the while loop
LoopHead(lst, n) == IF while_test(lst, n) THEN "generate" ELSE "main_for"

Goto(h) ==
    /\ pc' = h.pc
    /\ exitcode' = h.exitcode
    /\ console' = console \cup {h.out}

\* __main__: image_urls = generate_image_urls(<count>); image_urls = []
Main ==
    /\ pc = "start"
    /\ numimages' = RequestedCount(script, argv)
    /\ image_urls' = <<>>
    /\ pc' = LoopHead(<<>>, numimages')
    /\ returned' = ~while_test(<<>>, numimages')
    /\ UNCHANGED <<script, argv, probes, batches, raised, urls, k, url, drv,
                   exitcode, console>>

\* A text-generation call that fails
Fail(err) ==
    /\ raised' = err
    /\ Goto(IF err = "ServerError" THEN ServerErrorHandler ELSE Uncaught)
    /\ returned' = (pc' = "main_for")

\* generation_response = client.models.generate_content(...)
Generate ==
    /\ pc = "generate"
    /\ batches' = Min(batches + 1, MaxBatches)
    /\ \E result \in GenaiResults :
          IF result = "ok"
          THEN /\ pc' = "extract"
               /\ raised' = "none"
               /\ UNCHANGED <<returned, exitcode, console>>
          ELSE Fail(result)
    /\ UNCHANGED <<script, argv, numimages, image_urls, probes, urls, k, url,
                   drv>>

\* extraction_response = ...; urls = extraction_response.text.strip().split('\n')
Extract ==
    /\ pc = "extract"
    /\ \E result \in GenaiResults :
          IF result = "ok"
          THEN /\ \E text \in Texts : urls' = split(strip(text), NL)
               /\ k' = 0
               /\ pc' = "for"
               /\ raised' = "none"
               /\ UNCHANGED <<returned, exitcode, console>>
          ELSE /\ Fail(result)
               /\ UNCHANGED <<urls, k>>
    /\ UNCHANGED <<script, argv, numimages, image_urls, probes, batches, url,
                   drv>>

\* for url in urls: the next candidate, or the end of the batch
ForNext ==
    /\ pc = "for"
    /\ IF k < Len(urls)
       THEN /\ k' = k + 1
            /\ url' = urls[k + 1]
            /\ pc' = "body"
            /\ UNCHANGED returned
       ELSE /\ pc' = LoopHead(image_urls, numimages)
            /\ returned' = (pc' = "main_for")
            /\ UNCHANGED <<k, url>>
    /\ UNCHANGED <<script, argv, numimages, image_urls, probes, batches,
                   raised, urls, drv, exitcode, console>>

\* url = url.strip(); if is_accessible(url): append; if len == numimages: break
Body ==
    /\ pc = "body"
    /\ url' = strip(url)
    /\ \E r \in GetResponses(url') :
          /\ IF is_accessible(r)
             THEN /\ image_urls' = Append(image_urls, url')
                  /\ probes' = Append(probes, [url |-> url', response |-> r])
             ELSE UNCHANGED <<image_urls, probes>>
          /\ console' = IF r.raised THEN console \cup {"Error accessing"}
                        ELSE console
    /\ IF break_test(image_urls', numimages)
       THEN /\ pc' = LoopHead(image_urls', numimages)
            /\ returned' = (pc' = "main_for")
       ELSE /\ pc' = "for"
            /\ UNCHANGED returned
    /\ UNCHANGED <<script, argv, numimages, batches, raised, urls, k, drv,
                   exitcode>>

\* for i in range(len(image_urls)); the script ends after the last one
MainFor ==
    /\ pc = "main_for"
    /\ IF i < Len(image_urls)
       THEN /\ pc' = "download"
            /\ UNCHANGED exitcode
       ELSE /\ pc' = "exited"
            /\ exitcode' = 0
    /\ UNCHANGED <<script, argv, acq, drv, console>>

\* download_image(image_urls[i], imagefile)
Download ==
    /\ pc = "download"
    /\ LET filename == imagefile(script, i, image_urls)
       IN  \E r \in GetResponses(image_urls[i + 1]), body \in Bodies :
              /\ response' = r
              /\ IF r.raised
                 THEN /\ Goto(Uncaught)
                      /\ UNCHANGED <<fs, dirs, trace>>
                 ELSE IF download_ok(r)
                 THEN /\ dirs' = dirs \cup {dirname(filename)}
                      /\ fs' = Write(fs, filename, body)
                      /\ trace' = Append(trace,
                            [op |-> "download", index |-> i + 1, ok |-> TRUE])
                      /\ pc' = "convert"
                      /\ UNCHANGED <<exitcode, console>>
                 ELSE /\ Goto(DownloadErrorHandler)
                      /\ trace' = Append(trace,
                            [op |-> "download", index |-> i + 1, ok |-> FALSE])
                      /\ UNCHANGED <<fs, dirs>>
    /\ UNCHANGED <<script, argv, acq, i>>

\* to_grayscale(imagefile, grayfile), and the loop's next index
ToGrayscale ==
    /\ pc = "convert"
    /\ LET input_image == imagefile(script, i, image_urls)
           output_image == grayfile(script, i, image_urls)
           image == imread(fs, input_image)
       IN  IF image_is_None(image)
           THEN /\ console' = console \cup {"Error: could not read"}
                /\ trace' = Append(trace,
                      [op |-> "convert", index |-> i + 1, ok |-> FALSE])
                /\ UNCHANGED <<fs, dirs>>
           ELSE /\ dirs' = dirs \cup {dirname(output_image)}
                /\ fs' = Write(fs, output_image, cvtColor(image))
                /\ trace' = Append(trace,
                      [op |-> "convert", index |-> i + 1, ok |-> TRUE])
                /\ UNCHANGED console
    /\ i' = i + 1
    /\ pc' = "main_for"
    /\ UNCHANGED <<script, argv, acq, response, exitcode>>

Next ==
    \/ Main
    \/ Generate
    \/ Extract
    \/ ForNext
    \/ Body
    \/ MainFor
    \/ Download
    \/ ToGrayscale

Spec == Init /\ [][Next]_vars

(***************************************************************************)
(* The same program, with the assumptions under which acquisition ends:    *)
(* the process keeps running, the service again and again answers with a   *)
(* text that holds a candidate, and a candidate again and again passes the *)
(* reachability check.                                                     *)
(***************************************************************************)
\* An extraction answer that holds at least one non-blank line
Supply ==
    /\ Extract
    /\ pc' = "for"
    /\ \E j \in 1..Len(urls') : strip(urls'[j]) # <<>>

\* A reachability check that accepts its candidate
Accept ==
    /\ Body
    /\ Len(image_urls') > Len(image_urls)

FairSpec ==
    /\ Init
    /\ [][Next]_vars
    /\ WF_vars(Next)
    /\ SF_vars(Supply)
    /\ SF_vars(Accept)

(***************************************************************************)
(* Properties                                                              *)
(***************************************************************************)
RawFiles == {p \in DOMAIN fs : dirname(p) = IMAGES_DIR(script)}
GrayFiles == {p \in DOMAIN fs : dirname(p) = GSIMAGES_DIR(script)}

\* The raw and grayscale paths of the 1-based index j of the accepted list
RawPath(j) ==
    IMAGES_DIR(script) \o <<SEP>> \o str(j) \o splitext(image_urls[j])[2]
GrayPath(j) ==
    GSIMAGES_DIR(script) \o <<SEP>> \o str(j) \o splitext(image_urls[j])[2]

\* C1: for a requested count N >= 1, once generate_image_urls has returned,
\* the list has exactly N entries and each entry is the URL of a reachability
\* check that got a response with status 200.
C1_ExactlyNVerified ==
    (returned /\ numimages >= 1) =>
        /\ Len(image_urls) = numimages
        /\ Len(probes) = numimages
        /\ \A j \in 1..Len(image_urls) :
              /\ probes[j].url = image_urls[j]
              /\ ~probes[j].response.raised
              /\ probes[j].response.status_code = HTTP_OK

\* C1 witness: a return of two URLs that took several batches and at least
\* one failed reachability check
C1_Witness ==
    /\ returned
    /\ numimages = 2
    /\ Len(image_urls) = 2
    /\ batches >= 2
    /\ "Error accessing" \in console

\* C2: after a server error of a text-generation call the process has
\* printed the error and exited with status 1, generate_image_urls has not
\* returned, and nothing was downloaded or converted.
C2_ServerErrorAborts ==
    (raised = "ServerError") =>
        /\ pc = "exited"
        /\ exitcode = 1
        /\ "Error: <err.message>" \in console
        /\ ~returned
        /\ trace = <<>>
        /\ DOMAIN fs = {}

\* C2 witness: a server error in a later batch, with a URL already accepted
C2_Witness ==
    /\ raised = "ServerError"
    /\ batches >= 2
    /\ Len(image_urls) >= 1

\* C3: a download that gets a response with a status other than 200 changes
\* no file and no directory, and exits with status 1.
C3_NoWriteOnNon200 ==
    [][(pc = "download" /\ ~response'.raised
            /\ response'.status_code # HTTP_OK)
        => (fs' = fs /\ dirs' = dirs /\ pc' = "exited" /\ exitcode' = 1)]_vars

\* C3 witness: a 404 on the first download, the images directory absent
C3_Witness ==
    /\ pc = "exited"
    /\ ~response.raised
    /\ response.status_code = 404
    /\ trace # <<>>
    /\ IMAGES_DIR(script) \notin dirs
    /\ DOMAIN fs = {}

\* C4: a conversion whose source does not decode writes nothing and goes on
\* to the next index without exiting; the driver then downloads the next
\* URL; a run that printed no other error than failed reachability checks
\* and failed decodings ends with exit status 0.
C4_DecodeFailureNonFatal ==
    /\ [][(pc = "convert"
              /\ imread(fs, imagefile(script, i, image_urls)) = "None")
          => (fs' = fs /\ dirs' = dirs /\ pc' = "main_for" /\ i' = i + 1
                /\ exitcode' = 0 - 1)]_vars
    /\ [][(pc = "main_for" /\ i < Len(image_urls))
          => (pc' = "download" /\ i' = i)]_vars
    /\ []((pc = "exited"
             /\ console \subseteq {"Error accessing", "Error: could not read"})
          => exitcode = 0)

\* C4 witness: both conversions of a run of two failed, the second image
\* was downloaded after the first failure, and the run exited with 0
C4_Witness ==
    /\ pc = "exited"
    /\ exitcode = 0
    /\ Len(trace) = 4
    /\ ~trace[2].ok
    /\ trace[3].op = "download"
    /\ ~trace[4].ok
    /\ GrayFiles = {}

\* C5: for a count N >= 0 there are at most N grayscale files, and every
\* grayscale file is <j><ext> for an index j of the accepted list, ext the
\* extension of the j-th URL, with the raw file <j><ext> present.
C5_GrayHasRaw ==
    /\ numimages >= 0 => Cardinality(GrayFiles) <= numimages
    /\ \A g \in GrayFiles :
          \E j \in 1..Len(image_urls) :
              /\ g = GrayPath(j)
              /\ RawPath(j) \in RawFiles

\* C5 witness: two grayscale files, one .jpg and one .png
C5_Witness ==
    /\ Cardinality(GrayFiles) = 2
    /\ splitext(image_urls[1])[2] = <<DOT, "jpg">>
    /\ splitext(image_urls[2])[2] = <<DOT, "png">>

\* C6: past the start, for an argument N >= 1, the count given to
\* generate_image_urls is the argument.
C6_CountIsArgument ==
    (pc # "start" /\ argv >= 1) => numimages = argv

\* C7: for a count N >= 0 the list never holds more than N entries, and
\* while a request, a candidate or a reachability check is pending the list
\* holds fewer than N.
C7_StopAtN ==
    /\ numimages >= 0 => Len(image_urls) <= numimages
    /\ pc \in AcquisitionStates => Len(image_urls) < numimages

\* C7 witness: the function returned with candidates of the batch left
C7_Witness ==
    /\ returned
    /\ Len(image_urls) = numimages
    /\ numimages >= 1
    /\ k < Len(urls)

\* C8: a batch that ends with fewer than N URLs is followed by a generation
\* request with the list kept, a generation request by an extraction
\* request and that by the candidates' loop (or the exit on an error), the
\* list only grows, and the function returns only with N or more entries.
C8_Requery ==
    /\ [][(pc = "for" /\ k >= Len(urls) /\ Len(image_urls) < numimages)
          => (pc' = "generate" /\ image_urls' = image_urls /\ ~returned')]_vars
    /\ [][(pc = "generate") => (pc' \in {"extract", "exited"})]_vars
    /\ [][(pc = "extract") => (pc' \in {"for", "exited"})]_vars
    /\ [][(pc \in AcquisitionStates)
          => (SubSeq(image_urls', 1, Len(image_urls)) = image_urls)]_vars
    /\ [][(~returned /\ returned') => (Len(image_urls') >= numimages)]_vars

\* C8 witness: a second round trip after a batch with no accessible URL
C8_Witness ==
    /\ batches >= 2
    /\ pc = "for"
    /\ image_urls = <<>>
    /\ numimages >= 1

\* C9: downloads and conversions alternate in list order (download 1,
\* conversion 1, download 2, ...); a download that got a non-200 response is
\* the last event, the process has exited with status 1, the files of the
\* earlier indices are there and no others.
C9_InOrder ==
    /\ Len(trace) <= 2 * Len(image_urls)
    /\ \A j \in 1..Len(trace) :
          /\ trace[j].op = (IF j % 2 = 1 THEN "download" ELSE "convert")
          /\ trace[j].index = (j + 1) \div 2
          /\ (trace[j].op = "download" /\ ~trace[j].ok) =>
                /\ j = Len(trace)
                /\ pc = "exited"
                /\ exitcode = 1
                /\ RawFiles = {RawPath(m) : m \in 1..(trace[j].index - 1)}
                /\ GrayFiles \subseteq
                      {GrayPath(m) : m \in 1..(trace[j].index - 1)}
                /\ DOMAIN fs = RawFiles \cup GrayFiles

\* C9 witness: the second download failed after the first image was
\* downloaded and converted
C9_Witness ==
    /\ Len(trace) = 3
    /\ ~trace[3].ok
    /\ pc = "exited"
    /\ RawFiles = {RawPath(1)}
    /\ GrayFiles = {GrayPath(1)}

\* A step that stays in acquisition without accepting and without an error
Retry ==
    /\ Next
    /\ pc' \in AcquisitionStates
    /\ image_urls' = image_urls
    /\ raised' = "none"

\* C10: under the fairness of FairSpec acquisition ends; it is left only by
\* a step that accepts a URL or by a failed service call; in every state of
\* acquisition a step that does neither is possible; and for a count N <= 0
\* the empty list is returned with no request made.
C10_Termination ==
    /\ <>(pc \notin (AcquisitionStates \cup {"start"}))
    /\ [][(pc \in AcquisitionStates /\ pc' \notin AcquisitionStates)
          => (Len(image_urls') > Len(image_urls) \/ raised' # "none")]_vars
    /\ [](pc \in AcquisitionStates => ENABLED Retry)
    /\ []((pc # "start" /\ numimages <= 0)
          => (returned /\ image_urls = <<>> /\ batches = 0
                /\ raised = "none"))

\* C10 witness: acquisition ended by returning after more than one batch
C10_Witness ==
    /\ pc = "main_for"
    /\ i = 0
    /\ returned
    /\ numimages >= 1
    /\ batches >= 2

====
